---- MODULE Spec2Model ----
(***************************************************************************)
(* One invocation of a request handler of mypiknic-docs:                   *)
(*   api/dev.js     the Assistant Handler                                  *)
(*   api/update.js  the Change-Proposal Handler, with callOpenAI and       *)
(*                  createBranchAndCommitFiles                             *)
(* Every outbound fetch is one step whose outcome (success, non-success    *)
(* status, rejected fetch, malformed body) is chosen by the environment.   *)
(* The source-hosting service is modelled by the branch it holds for this  *)
(* invocation, the files on it and the pull requests opened.               *)
(***************************************************************************)
EXTENDS Integers, Sequences, FiniteSets, TLC

VARIABLES
    handler,    \* which handler this invocation runs: "dev" | "update"
    req,        \* the request: method and body
    env,        \* process.env as the handler reads it
    pc,         \* position of the handler
    resp,       \* the response returned ([status |-> 0] while none)
    reply,      \* what the model service answered ([kind |-> "none"] before)
    aiResult,   \* update.js: the edit plan in hand
    loc,        \* createBranchAndCommitFiles: its local variables
    calls,      \* every outbound call issued so far, in order
    remote,     \* the source-hosting service: branch, files on it, pull requests
    inv,        \* two invocations of the apply phase: each one's position and locals
    hub         \* the source-hosting service the two invocations share

single == <<handler, req, env, pc, resp, reply, aiResult, loc, calls, remote>>
vars == <<handler, req, env, pc, resp, reply, aiResult, loc, calls, remote, inv, hub>>

(***************************************************************************)
(* Bounds of the model                                                     *)
(***************************************************************************)
MaxFiles == 2       \* longest file list of a plan supplied by the client
MaxTextLen == 3     \* longest model answer, in tokens

(***************************************************************************)
(* Helpers                                                                 *)
(***************************************************************************)
Range(s) == {s[i] : i \in 1..Len(s)}

SeqsUpTo(S, n) == UNION {[1..k -> S] : k \in 0..n}

Min(a, b) == IF a < b THEN a ELSE b

\* substring(1, n): the prefix without its first character
SubstringFromOne(s, n) == SubSeq(s, 2, Min(Len(s), n))

\* String.prototype.substring(0, n)
Substring(s, n) == SubSeq(s, 1, Min(Len(s), n))

(***************************************************************************)
(* JavaScript values of the requests                                       *)
(***************************************************************************)
\* a prompt is undefined, a string (a sequence of characters) or a number
Undefined == [t |-> "undefined", s |-> <<>>]
Str(s) == [t |-> "string", s |-> s]
Num == [t |-> "number", s |-> <<>>]     \* a non-zero number such as 7

PromptStrings == {<<>>, <<" ">>, <<"a">>, <<" ", "a">>}
Prompts == {Undefined, Num} \cup {Str(s) : s \in PromptStrings}

\* !!v of a prompt: undefined and "" are falsy, any other string and 7 truthy
Truthy(v) ==
    CASE v.t = "undefined" -> FALSE
      [] v.t = "string" -> v.s # <<>>
      [] OTHER -> TRUE

\* String.prototype.trim
RECURSIVE TrimStart(_)
TrimStart(s) == IF s # <<>> /\ Head(s) = " " THEN TrimStart(Tail(s)) ELSE s

RECURSIVE TrimEnd(_)
TrimEnd(s) ==
    IF s # <<>> /\ s[Len(s)] = " " THEN TrimEnd(SubSeq(s, 1, Len(s) - 1)) ELSE s

Trim(s) == TrimEnd(TrimStart(s))

\* FileEdit; commitMessage "" stands for an absent or empty message (both falsy)
Paths == {"docs/a.md", "docs/b.md"}
FileEdits ==
    { [path |-> "docs/a.md", content |-> "X", commitMessage |-> "add a"],
      [path |-> "docs/a.md", content |-> "Y", commitMessage |-> ""],
      [path |-> "docs/b.md", content |-> "Y", commitMessage |-> "add b"] }

\* body.files: undefined, a non-array value, or an array of FileEdit
NoFiles == [t |-> "undefined", v |-> <<>>]
NotArray == [t |-> "string", v |-> <<>>]
Arr(v) == [t |-> "array", v |-> v]
ClientFiles == {NoFiles, NotArray} \cup {Arr(v) : v \in SeqsUpTo(FileEdits, MaxFiles)}

\* Array.isArray(f) && f.length > 0
NonEmptyArray(f) == f.t = "array" /\ Len(f.v) > 0

\* the body as req.json() / req.body delivers it: kind "invalid" is a body that
\* is no JSON (update.js) or no body at all (dev.js), kind "null" the JSON null
EmptyBody(k) ==
    [kind |-> k, prompt |-> Undefined, files |-> NoFiles, approve |-> FALSE,
     prTitle |-> "", prBody |-> ""]

UpdateBodies ==
    {EmptyBody("invalid"), EmptyBody("null")} \cup
    { [kind |-> "object", prompt |-> p, files |-> f, approve |-> a,
       prTitle |-> t[1], prBody |-> t[2]] :
        p \in Prompts, f \in ClientFiles, a \in BOOLEAN,
        t \in {<<"", "">>, <<"T", "B">>} }

DevBodies ==
    {EmptyBody("invalid"), EmptyBody("null")} \cup
    { [EmptyBody("object") EXCEPT !.prompt = p] : p \in Prompts }

Methods == {"POST", "GET"}

\* process.env: "" is an unset variable
Envs ==
    [REPO_OWNER : {"", "cafe"}, REPO_NAME : {"", "cafe-docs"},
     OPENAI_API_KEY : {"", "sk"}, GITHUB_TOKEN : {"", "ghp"},
     TARGET_BRANCH : {"", "release", "ai-edit-1700000000000"}]

(***************************************************************************)
(* The model's answer and JSON.parse                                       *)
(***************************************************************************)
\* A text is a sequence of tokens: braces, a word of prose, the literal
\* null, and three members an object can hold:
\*   F  "files":[{"path":"docs/b.md","content":"Y"}]
\*   E  "files":[]
\*   S  "files":"none"
Tokens == {"{", "}", "w", "null", "F", "E", "S"}
Members == {"F", "E", "S"}
Texts == SeqsUpTo(Tokens, MaxTextLen)

GeneratedFiles == <<[path |-> "docs/b.md", content |-> "Y", commitMessage |-> ""]>>

\* parsed JSON values: null, or an object with its files, prTitle and prBody
JsonNull == [t |-> "null", files |-> NoFiles, prTitle |-> "", prBody |-> ""]
JsonObject(f, title, body) ==
    [t |-> "object", files |-> f, prTitle |-> title, prBody |-> body]

MemberFiles(m) ==
    CASE m = "F" -> Arr(GeneratedFiles)
      [] m = "E" -> Arr(<<>>)
      [] OTHER -> NotArray

ParseFailure == [ok |-> FALSE, val |-> JsonNull]
Parsed(v) == [ok |-> TRUE, val |-> v]

\* JSON.parse(text): the whole text must be one JSON value
JSONParse(text) ==
    CASE text = <<"null">> -> Parsed(JsonNull)
      [] text = <<"{", "}">> -> Parsed(JsonObject(NoFiles, "", ""))
      [] Len(text) = 3 /\ text[1] = "{" /\ text[2] \in Members /\ text[3] = "}" ->
            Parsed(JsonObject(MemberFiles(text[2]), "", ""))
      [] OTHER -> ParseFailure

\* text.match(/\{[\s\S]*\}/): from the first "{" to the last "}" after it
Positions(text, tok) == {i \in 1..Len(text) : text[i] = tok}
First(S) == CHOOSE i \in S : \A j \in S : i <= j
Last(S) == CHOOSE i \in S : \A j \in S : j <= i

HasMatch(text) ==
    /\ Positions(text, "{") # {}
    /\ Positions(text, "}") # {}
    /\ First(Positions(text, "{")) < Last(Positions(text, "}"))

Match(text) ==
    SubSeq(text, First(Positions(text, "{")), Last(Positions(text, "}")))

RawPrefixLen == 1000

\* lines 61-76 of callOpenAI: strict parse, then the extracted substring
ParseModelOutput(text) ==
    IF JSONParse(text).ok THEN JSONParse(text)
    ELSE IF HasMatch(text) THEN JSONParse(Match(text))
    ELSE ParseFailure

\* aiResult.files is truthy: present, an array (even empty) or a non-empty string
HasFiles(v) == v.t = "object" /\ v.files.t # "undefined"


(***************************************************************************)
(* Responses                                                               *)
(***************************************************************************)
NoPR == [title |-> "", head |-> "", base |-> "", body |-> ""]

NoResp ==
    [status |-> 0, kind |-> "none", error |-> <<>>, details |-> "",
     aiResult |-> JsonNull, pr |-> NoPR, reply |-> <<>>]

\* ERR(status, { error })
ERR(status, msg) == [NoResp EXCEPT !.status = status, !.kind = "error", !.error = msg]

\* OK({ preview: true, aiResult })
OKPreview(plan) == [NoResp EXCEPT !.status = 200, !.kind = "preview", !.aiResult = plan]

\* OK({ success: true, pr })
OKSuccess(pr) == [NoResp EXCEPT !.status = 200, !.kind = "success", !.pr = pr]

\* the catch of update.js: ERR(500, { error: err.message })
Caught(msg) == ERR(500, msg)

(***************************************************************************)
(* Change-Proposal Handler, api/update.js                                  *)
(***************************************************************************)
Step(p, r, plan) == [pc |-> p, resp |-> r, aiResult |-> plan]

\* Approval without the preview return of lines 206-208
ApprovalWithoutPreview(r, e, plan) ==
    IF e.GITHUB_TOKEN = ""
        THEN Step("done", ERR(500, <<"Server missing GITHUB_TOKEN env var">>), plan)
    ELSE IF ~NonEmptyArray(plan.files)
        THEN Step("done", ERR(400, <<"No files to commit">>), plan)
    ELSE Step("repo", NoResp, plan)

\* Approval without the file-list check of lines 214-216
ApprovalWithoutFilesCheck(r, e, plan) ==
    IF ~r.body.approve THEN Step("done", OKPreview(plan), plan)
    ELSE IF e.GITHUB_TOKEN = ""
        THEN Step("done", ERR(500, <<"Server missing GITHUB_TOKEN env var">>), plan)
    ELSE Step("repo", NoResp, plan)

\* lines 205-216: preview, or the checks that precede the commit sequence
Approval(r, e, plan) ==
    IF ~r.body.approve THEN Step("done", OKPreview(plan), plan)
    ELSE IF e.GITHUB_TOKEN = ""
        THEN Step("done", ERR(500, <<"Server missing GITHUB_TOKEN env var">>), plan)
    ELSE IF ~NonEmptyArray(plan.files)
        THEN Step("done", ERR(400, <<"No files to commit">>), plan)
    ELSE Step("repo", NoResp, plan)

\* Validate with the prompt check of line 199 moved before the environment
\* checks of lines 187-188
ValidatePromptFirst(r, e) ==
    IF r.method # "POST" THEN Step("done", ERR(405, <<"Only POST allowed">>), JsonNull)
    ELSE IF r.body.kind = "null"
        THEN Step("done", Caught(<<"Cannot read properties of null">>), JsonNull)
    ELSE IF ~NonEmptyArray(r.body.files) /\ ~Truthy(r.body.prompt)
        THEN Step("done", ERR(400, <<"No prompt provided">>), JsonNull)
    ELSE IF e.REPO_OWNER = "" \/ e.REPO_NAME = ""
        THEN Step("done",
                  ERR(500, <<"Server misconfigured: REPO_OWNER or REPO_NAME missing">>),
                  JsonNull)
    ELSE IF e.OPENAI_API_KEY = ""
        THEN Step("done", ERR(500, <<"Server misconfigured: OPENAI_API_KEY missing">>),
                  JsonNull)
    ELSE IF NonEmptyArray(r.body.files)
        THEN Approval(r, e,
                 JsonObject(r.body.files,
                            IF r.body.prTitle # "" THEN r.body.prTitle
                            ELSE "AI suggested edits",
                            IF r.body.prBody # "" THEN r.body.prBody
                            ELSE "AI suggested changes"))
    ELSE Step("openai", NoResp, JsonNull)

\* Validate without the method check of line 176
ValidateAnyMethod(r, e) ==
    IF r.body.kind = "null"
        THEN Step("done", Caught(<<"Cannot read properties of null">>), JsonNull)
    ELSE IF e.REPO_OWNER = "" \/ e.REPO_NAME = ""
        THEN Step("done",
                  ERR(500, <<"Server misconfigured: REPO_OWNER or REPO_NAME missing">>),
                  JsonNull)
    ELSE IF e.OPENAI_API_KEY = ""
        THEN Step("done", ERR(500, <<"Server misconfigured: OPENAI_API_KEY missing">>),
                  JsonNull)
    ELSE IF NonEmptyArray(r.body.files)
        THEN Approval(r, e,
                 JsonObject(r.body.files,
                            IF r.body.prTitle # "" THEN r.body.prTitle
                            ELSE "AI suggested edits",
                            IF r.body.prBody # "" THEN r.body.prBody
                            ELSE "AI suggested changes"))
    ELSE IF ~Truthy(r.body.prompt)
        THEN Step("done", ERR(400, <<"No prompt provided">>), JsonNull)
    ELSE Step("openai", NoResp, JsonNull)

\* Validate with a prompt taken before the client's files at lines 192-199
ValidatePromptOverFiles(r, e) ==
    IF r.method # "POST" THEN Step("done", ERR(405, <<"Only POST allowed">>), JsonNull)
    ELSE IF r.body.kind = "null"
        THEN Step("done", Caught(<<"Cannot read properties of null">>), JsonNull)
    ELSE IF e.REPO_OWNER = "" \/ e.REPO_NAME = ""
        THEN Step("done",
                  ERR(500, <<"Server misconfigured: REPO_OWNER or REPO_NAME missing">>),
                  JsonNull)
    ELSE IF e.OPENAI_API_KEY = ""
        THEN Step("done", ERR(500, <<"Server misconfigured: OPENAI_API_KEY missing">>),
                  JsonNull)
    ELSE IF Truthy(r.body.prompt) THEN Step("openai", NoResp, JsonNull)
    ELSE IF NonEmptyArray(r.body.files)
        THEN Approval(r, e,
                 JsonObject(r.body.files,
                            IF r.body.prTitle # "" THEN r.body.prTitle
                            ELSE "AI suggested edits",
                            IF r.body.prBody # "" THEN r.body.prBody
                            ELSE "AI suggested changes"))
    ELSE Step("done", ERR(400, <<"No prompt provided">>), JsonNull)

\* lines 176-203, up to the call of callOpenAI
Validate(r, e) ==
    IF r.method # "POST" THEN Step("done", ERR(405, <<"Only POST allowed">>), JsonNull)
    ELSE IF r.body.kind = "null"
        THEN Step("done", Caught(<<"Cannot read properties of null">>), JsonNull)
    ELSE IF e.REPO_OWNER = "" \/ e.REPO_NAME = ""
        THEN Step("done",
                  ERR(500, <<"Server misconfigured: REPO_OWNER or REPO_NAME missing">>),
                  JsonNull)
    ELSE IF e.OPENAI_API_KEY = ""
        THEN Step("done", ERR(500, <<"Server misconfigured: OPENAI_API_KEY missing">>),
                  JsonNull)
    ELSE IF NonEmptyArray(r.body.files)
        THEN Approval(r, e,
                 JsonObject(r.body.files,
                            IF r.body.prTitle # "" THEN r.body.prTitle
                            ELSE "AI suggested edits",
                            IF r.body.prBody # "" THEN r.body.prBody
                            ELSE "AI suggested changes"))
    ELSE IF ~Truthy(r.body.prompt)
        THEN Step("done", ERR(400, <<"No prompt provided">>), JsonNull)
    ELSE Step("openai", NoResp, JsonNull)

\* what the completion endpoint can answer: the fetch rejects, a non-success
\* status, a body that is no JSON, or a completion with or without content
NoReply == [kind |-> "none", content |-> FALSE, text |-> <<>>]
Replies ==
    { [NoReply EXCEPT !.kind = k] : k \in {"throw", "notok", "badjson"} } \cup
    { [NoReply EXCEPT !.kind = "ok"] } \cup
    { [kind |-> "ok", content |-> TRUE, text |-> t] : t \in Texts }

\* callOpenAI lines 52-76 and handler line 202, on the answer rp
Generated(r, e, rp) ==
    CASE rp.kind = "throw" -> Step("done", Caught(<<"fetch failed">>), JsonNull)
      [] rp.kind = "notok" -> Step("done", Caught(<<"OpenAI error: ", "status">>), JsonNull)
      [] rp.kind = "badjson" ->
            Step("done", Caught(<<"Unexpected token in JSON">>), JsonNull)
      [] OTHER ->
            IF ~rp.content \/ rp.text = <<>>
                THEN Step("done", Caught(<<"OpenAI returned no content">>), JsonNull)
            ELSE IF ~ParseModelOutput(rp.text).ok
                THEN Step("done",
                          Caught(<<"Failed to parse JSON from model output. Raw output: ">>
                                 \o Substring(rp.text, RawPrefixLen)),
                          JsonNull)
            ELSE IF ~HasFiles(ParseModelOutput(rp.text).val)
                THEN Step("done", ERR(502, <<"OpenAI returned no files. Raw: ">>),
                          ParseModelOutput(rp.text).val)
            ELSE Approval(r, e, ParseModelOutput(rp.text).val)


(***************************************************************************)
(* Outbound calls and the source-hosting service                           *)
(***************************************************************************)
NoCall ==
    [svc |-> "", op |-> "", out |-> "", branch |-> "", base |-> "", path |-> "",
     content |-> "", message |-> "", sha |-> "", title |-> "", body |-> ""]

OpenAICall(out) == [NoCall EXCEPT !.svc = "openai", !.op = "completion", !.out = out]
GitHubCall(op, out) == [NoCall EXCEPT !.svc = "github", !.op = op, !.out = out]

\* Buffer.from(content, "utf8").toString("base64"), and the service's decoding
Base64(c) == "base64:" \o c
Decoded(c) == CHOOSE d \in {"X", "Y", "old"} : Base64(d) = c

\* the service's identifier of a file content, and the head commit of a branch
BlobSha(c) == "blob-" \o c
HeadOf(b) == "commit-" \o b

\* what the repository lookup can report as default_branch ("" when missing)
DefaultBranches == {"", "trunk"}

\* Date.now() at line 106
Clock == {"1700000000000"}

\* the files a base branch can hold ("" is no file at that path)
BaseTrees == [Paths -> {"", "old"}]

NoLoc ==
    [defaultBranch |-> "", baseSha |-> "", newBranch |-> "", i |-> 0,
     existingSha |-> ""]

NoRemote == [branch |-> "", head |-> "", tree |-> [p \in Paths |-> ""], prs |-> <<>>]

\* the service accepts a write that names the current identifier of an
\* existing file, or none for a new file
Acceptable(tree, path, sha) ==
    IF tree[path] = "" THEN sha = "" ELSE sha = BlobSha(tree[path])


\* two invocations of createBranchAndCommitFiles in flight at once
Invocations == {1, 2}

\* Date.now() at line 106, as the two invocations can read it
Clocks == {"1700000000000", "1700000000001"}
BranchNames == {"ai-edit-" \o t : t \in Clocks}

\* one invocation: its position, locals and plan, what it read at line 106,
\* the answer to its create-ref call, and its response
NoInvocation ==
    [pc |-> "idle", loc |-> NoLoc, plan |-> JsonNull, time |-> "", refOut |-> "",
     resp |-> NoResp]

\* a ref of the shared service: who created it, its head and its files
NoRef == [exists |-> FALSE, by |-> 0, head |-> "", tree |-> [p \in Paths |-> ""]]

\* the shared service: the base branch's files, the refs created, and who
\* wrote which path on which branch and opened which pull request
NoHub ==
    [base |-> [p \in Paths |-> ""], refs |-> [b \in BranchNames |-> NoRef],
     writes |-> {}, prs |-> {}]

(***************************************************************************)
(* State after construction: a request has arrived, nothing has run        *)
(***************************************************************************)
Init ==
    /\ handler \in {"dev", "update"}
    /\ env \in Envs
    /\ req \in [method : Methods,
                body : IF handler = "dev" THEN DevBodies ELSE UpdateBodies]
    /\ pc = "start"
    /\ resp = NoResp
    /\ reply = NoReply
    /\ aiResult = JsonNull
    /\ loc = NoLoc
    /\ calls = <<>>
    /\ remote = NoRemote
    /\ inv = [p \in Invocations |-> NoInvocation]
    /\ hub = NoHub

\* the handler returns response r
Return(r) == pc' = "done" /\ resp' = r

(***************************************************************************)
(* update.js handler, lines 174-234                                        *)
(***************************************************************************)
\* the handler from its entry to its first outbound call, or to its response
UpdateHandler ==
    /\ handler = "update" /\ pc = "start"
    /\ pc' = Validate(req, env).pc
    /\ resp' = Validate(req, env).resp
    /\ aiResult' = Validate(req, env).aiResult
    /\ UNCHANGED <<handler, req, env, reply, loc, calls, remote>>
    /\ UNCHANGED <<inv, hub>>

\* callOpenAI: the completion request is answered, the answer is parsed and
\* the handler goes on to line 202 and the approval branch
CallOpenAI ==
    /\ handler = "update" /\ pc = "openai"
    /\ \E rp \in Replies :
        /\ reply' = rp
        /\ calls' = Append(calls, OpenAICall(rp.kind))
        /\ pc' = Generated(req, env, rp).pc
        /\ resp' = Generated(req, env, rp).resp
        /\ aiResult' = Generated(req, env, rp).aiResult
    /\ UNCHANGED <<handler, req, env, loc, remote>>
    /\ UNCHANGED <<inv, hub>>

(***************************************************************************)
(* createBranchAndCommitFiles, lines 79-172                                *)
(***************************************************************************)
\* line 94 with the repository's default branch taken before the override
ResolveBaseDefaultFirst(e, db) ==
    IF db # "" THEN db
    ELSE IF e.TARGET_BRANCH # "" THEN e.TARGET_BRANCH ELSE "main"

\* line 94: targetBranch || repoInfo.default_branch || "main"
ResolveBase(e, db) ==
    IF e.TARGET_BRANCH # "" THEN e.TARGET_BRANCH
    ELSE IF db # "" THEN db ELSE "main"

\* line 123 with the plan's title taken before the file's own message
FileMessageTitleFirst(file, plan) ==
    IF plan.prTitle # "" THEN plan.prTitle
    ELSE IF file.commitMessage # "" THEN file.commitMessage ELSE "AI edit"

\* line 123: file.commitMessage || prTitle || "AI edit"
FileMessage(file, plan) ==
    IF file.commitMessage # "" THEN file.commitMessage
    ELSE IF plan.prTitle # "" THEN plan.prTitle ELSE "AI edit"

\* the PUT without line 139: the existing identifier is never sent
PutCallWithoutSha(file, plan, l, out) ==
    [GitHubCall("putFile", out) EXCEPT
        !.path = file.path, !.message = FileMessage(file, plan),
        !.content = Base64(file.content), !.branch = l.newBranch]

\* the PUT with branch: defaultBranch in place of newBranch at line 137
PutCallOnBase(file, plan, l, out) ==
    [GitHubCall("putFile", out) EXCEPT
        !.path = file.path, !.message = FileMessage(file, plan),
        !.content = Base64(file.content), !.branch = l.defaultBranch,
        !.sha = l.existingSha]

\* lines 134-145: the PUT of one file
PutCall(file, plan, l, out) ==
    [GitHubCall("putFile", out) EXCEPT
        !.path = file.path, !.message = FileMessage(file, plan),
        !.content = Base64(file.content), !.branch = l.newBranch,
        !.sha = l.existingSha]

\* lines 157-162: the pull request asked for
PullRequest(plan, l) ==
    [title |-> IF plan.prTitle # "" THEN plan.prTitle ELSE "AI suggested edits",
     head |-> l.newBranch,
     base |-> l.defaultBranch,
     body |-> IF plan.prBody # "" THEN plan.prBody
              ELSE "AI-generated changes. Please review."]

\* the loop of line 121 leaving after the first file
LoopPcFirstFileOnly(i, plan) == IF i <= 1 THEN "getFile" ELSE "createPR"

\* the for loop of line 121: the next file, or the pull request after the last
LoopPc(i, plan) == IF i <= Len(plan.files.v) THEN "getFile" ELSE "createPR"

\* a failed step that is done again instead of answering
AbortAndRetry(msg) == UNCHANGED <<pc, resp>>

\* a step of the sequence throws: the catch of the handler answers 500
Abort(msg) == Return(Caught(msg))

\* lines 88-94; the call records the default_branch the service reported
RepoLookup ==
    /\ pc = "repo"
    /\ \E out \in {"ok", "notok", "throw", "badjson"} :
        /\ CASE out = "ok" ->
                \E db \in DefaultBranches :
                    /\ calls' = Append(calls,
                            [GitHubCall("repo", out) EXCEPT !.base = db])
                    /\ loc' = [loc EXCEPT !.defaultBranch = ResolveBase(env, db)]
                    /\ pc' = "ref" /\ UNCHANGED resp
             [] out = "notok" ->
                /\ calls' = Append(calls, GitHubCall("repo", out))
                /\ Abort(<<"GitHub repo lookup failed: ", "status">>) /\ UNCHANGED loc
             [] out = "badjson" ->
                /\ calls' = Append(calls, GitHubCall("repo", out))
                /\ Abort(<<"Unexpected token in JSON">>) /\ UNCHANGED loc
             [] OTHER ->
                /\ calls' = Append(calls, GitHubCall("repo", out))
                /\ Abort(<<"fetch failed">>) /\ UNCHANGED loc
    /\ UNCHANGED <<handler, req, env, reply, aiResult, remote>>
    /\ UNCHANGED <<inv, hub>>

\* lines 97-103
RefLookup ==
    /\ pc = "ref"
    /\ \E out \in {"ok", "notok", "throw", "badjson"} :
        /\ calls' = Append(calls,
                [GitHubCall("ref", out) EXCEPT !.branch = loc.defaultBranch])
        /\ CASE out = "ok" ->
                /\ loc' = [loc EXCEPT !.baseSha = HeadOf(loc.defaultBranch)]
                /\ pc' = "createRef" /\ UNCHANGED resp
             [] out = "notok" ->
                Abort(<<"Failed to fetch branch ref: ", "status">>) /\ UNCHANGED loc
             [] out = "badjson" ->
                Abort(<<"Unexpected token in JSON">>) /\ UNCHANGED loc
             [] OTHER -> Abort(<<"fetch failed">>) /\ UNCHANGED loc
    /\ UNCHANGED <<handler, req, env, reply, aiResult, remote>>
    /\ UNCHANGED <<inv, hub>>

\* the service creates branch b at commit sha; it starts with the base's files
Created(b, sha, tree) == [remote EXCEPT !.branch = b, !.head = sha, !.tree = tree]

\* lines 106-118; a rejected fetch may or may not have reached the service,
\* and the service creates no ref of a name that exists (the base branch's)
CreateRef ==
    /\ pc = "createRef"
    /\ \E out \in {"ok", "notok", "throw"}, time \in Clock, tree \in BaseTrees,
          applied \in BOOLEAN :
        LET newBranch == "ai-edit-" \o time IN
        /\ calls' = Append(calls,
                [GitHubCall("createRef", out) EXCEPT
                    !.branch = newBranch, !.sha = loc.baseSha])
        /\ loc' = [loc EXCEPT !.newBranch = newBranch, !.i = 1]
        /\ applied => newBranch # loc.defaultBranch
        /\ CASE out = "ok" ->
                /\ applied
                /\ remote' = Created(newBranch, loc.baseSha, tree)
                /\ pc' = LoopPc(1, aiResult) /\ UNCHANGED resp
             [] out = "notok" ->
                /\ ~applied /\ tree = NoRemote.tree
                /\ UNCHANGED remote
                /\ Abort(<<"Failed to create branch: ", "status">>)
             [] OTHER ->
                /\ remote' = IF applied THEN Created(newBranch, loc.baseSha, tree)
                             ELSE remote
                /\ (applied \/ tree = NoRemote.tree)
                /\ Abort(<<"fetch failed">>)
    /\ UNCHANGED <<handler, req, env, reply, aiResult>>
    /\ UNCHANGED <<inv, hub>>


\* the loop reading the first file at every turn
CurrentFileAlwaysFirst == aiResult.files.v[1]

\* the file of the plan the loop is at
CurrentFile == aiResult.files.v[loc.i]

\* lines 127-132: does the path exist on the new branch? Any non-success answer
\* leaves existingSha null; a success without a sha (a directory listing) too
GetFile ==
    /\ pc = "getFile"
    /\ \E out \in {"ok", "oknosha", "notok", "throw", "badjson"} :
        LET current == remote.tree[CurrentFile.path]
            exists == remote.branch = loc.newBranch /\ current # "" IN
        /\ out \in {"ok", "badjson"} => exists
        /\ out = "oknosha" => ~exists
        /\ calls' = Append(calls,
                [GitHubCall("getFile", out) EXCEPT
                    !.path = CurrentFile.path, !.branch = loc.newBranch,
                    !.sha = IF out = "ok" THEN BlobSha(current) ELSE ""])
        /\ CASE out = "ok" ->
                /\ loc' = [loc EXCEPT !.existingSha = BlobSha(current)]
                /\ pc' = "putFile" /\ UNCHANGED resp
             [] out \in {"oknosha", "notok"} ->
                /\ loc' = [loc EXCEPT !.existingSha = ""]
                /\ pc' = "putFile" /\ UNCHANGED resp
             [] out = "badjson" ->
                Abort(<<"Unexpected token in JSON">>) /\ UNCHANGED loc
             [] OTHER -> Abort(<<"fetch failed">>) /\ UNCHANGED loc
    /\ UNCHANGED <<handler, req, env, reply, aiResult, remote>>
    /\ UNCHANGED <<inv, hub>>

\* the service stores the content of a write at its path
Written(call) == [remote EXCEPT !.tree[call.path] = Decoded(call.content)]

\* lines 134-150; a rejected fetch may or may not have reached the service
PutFile ==
    /\ pc = "putFile"
    /\ \E out \in {"ok", "notok", "throw"}, applied \in BOOLEAN :
        LET call == PutCall(CurrentFile, aiResult, loc, out)
            accepted == /\ remote.branch = call.branch
                        /\ Acceptable(remote.tree, call.path, call.sha) IN
        /\ calls' = Append(calls, call)
        /\ applied => accepted
        /\ CASE out = "ok" ->
                /\ applied
                /\ remote' = Written(call)
                /\ loc' = [loc EXCEPT !.i = loc.i + 1]
                /\ pc' = LoopPc(loc.i + 1, aiResult) /\ UNCHANGED resp
             [] out = "notok" ->
                /\ ~applied
                /\ UNCHANGED <<remote, loc>>
                /\ Abort(<<"Failed to create/update file ", call.path, ": ", "status">>)
             [] OTHER ->
                /\ remote' = IF applied THEN Written(call) ELSE remote
                /\ UNCHANGED loc
                /\ Abort(<<"fetch failed">>)
    /\ UNCHANGED <<handler, req, env, reply, aiResult>>
    /\ UNCHANGED <<inv, hub>>

\* the service opens pull request pr
Opened(pr) == [remote EXCEPT !.prs = Append(remote.prs, pr)]

\* lines 154-171 and handler line 229
CreatePR ==
    /\ pc = "createPR"
    /\ \E out \in {"ok", "notok", "throw", "badjson"}, applied \in BOOLEAN :
        LET pr == PullRequest(aiResult, loc) IN
        /\ calls' = Append(calls,
                [GitHubCall("createPR", out) EXCEPT
                    !.title = pr.title, !.branch = pr.head, !.base = pr.base,
                    !.body = pr.body])
        /\ CASE out = "ok" ->
                /\ applied /\ remote' = Opened(pr) /\ Return(OKSuccess(pr))
             [] out = "badjson" ->
                /\ applied /\ remote' = Opened(pr)
                /\ Abort(<<"Unexpected token in JSON">>)
             [] out = "notok" ->
                /\ ~applied /\ UNCHANGED remote
                /\ Abort(<<"Failed to create PR: ", "status">>)
             [] OTHER ->
                /\ remote' = IF applied THEN Opened(pr) ELSE remote
                /\ Abort(<<"fetch failed">>)
    /\ UNCHANGED <<handler, req, env, reply, aiResult, loc>>
    /\ UNCHANGED <<inv, hub>>

(***************************************************************************)
(* Assistant Handler, api/dev.js                                           *)
(***************************************************************************)
\* lines 6-7: (req.body || {}).prompt || ''
DevPrompt(r) == IF Truthy(r.body.prompt) THEN r.body.prompt ELSE Str(<<>>)

\* lines 4-13: the checks before the fetch. prompt.trim() of a prompt that is
\* no string throws outside the try block: the exception leaves the handler
DevValidate(r, e) ==
    IF r.method # "POST" THEN Step("done", ERR(405, <<"Only POST allowed">>), JsonNull)
    ELSE IF ~Truthy(DevPrompt(r))
        THEN Step("done", ERR(400, <<"Empty prompt">>), JsonNull)
    ELSE IF DevPrompt(r).t # "string" THEN Step("thrown", NoResp, JsonNull)
    ELSE IF Len(Trim(DevPrompt(r).s)) = 0
        THEN Step("done", ERR(400, <<"Empty prompt">>), JsonNull)
    ELSE IF e.OPENAI_API_KEY = ""
        THEN Step("done", ERR(500, <<"Server missing OPENAI_API_KEY env var">>), JsonNull)
    ELSE Step("openai", NoResp, JsonNull)

DevHandler ==
    /\ handler = "dev" /\ pc = "start"
    /\ pc' = DevValidate(req, env).pc
    /\ resp' = DevValidate(req, env).resp
    /\ UNCHANGED <<handler, req, env, reply, aiResult, loc, calls, remote>>
    /\ UNCHANGED <<inv, hub>>

\* the answers the Assistant Handler tells apart
DevReplies ==
    { [NoReply EXCEPT !.kind = k] : k \in {"throw", "notok", "badjson", "ok"} } \cup
    { [kind |-> "ok", content |-> TRUE, text |-> t] : t \in {<<>>, <<"w">>} }

\* lines 41-52 with the upstream status check of lines 41-44 left out: a
\* non-success answer is read as a completion and fails in the catch
DevAnswerWithoutStatusCheck(rp) ==
    CASE rp.kind \in {"throw", "badjson", "notok"} ->
            ERR(500, <<"Internal server error">>)
      [] OTHER ->
            [NoResp EXCEPT !.status = 200, !.kind = "reply",
                !.reply = IF rp.content /\ rp.text # <<>> THEN rp.text
                          ELSE <<"No reply">>]

\* lines 41-52 on the answer rp
DevAnswer(rp) ==
    CASE rp.kind \in {"throw", "badjson"} -> ERR(500, <<"Internal server error">>)
      [] rp.kind = "notok" ->
            [ERR(502, <<"Upstream error">>) EXCEPT !.details = "upstream body"]
      [] OTHER ->
            [NoResp EXCEPT !.status = 200, !.kind = "reply",
                !.reply = IF rp.content /\ rp.text # <<>> THEN rp.text
                          ELSE <<"No reply">>]

\* lines 23-52: the completion request is answered
DevFetch ==
    /\ handler = "dev" /\ pc = "openai"
    /\ \E rp \in DevReplies :
        /\ reply' = rp
        /\ calls' = Append(calls, OpenAICall(rp.kind))
        /\ Return(DevAnswer(rp))
    /\ UNCHANGED <<handler, req, env, aiResult, loc, remote>>
    /\ UNCHANGED <<inv, hub>>

Next ==
    \/ UpdateHandler
    \/ CallOpenAI
    \/ RepoLookup
    \/ RefLookup
    \/ CreateRef
    \/ GetFile
    \/ PutFile
    \/ CreatePR
    \/ DevHandler
    \/ DevFetch

Spec == Init /\ [][Next]_vars

\* every awaited call returns, so a handler that can take a step takes one
FairSpec == Spec /\ WF_vars(Next)

(***************************************************************************)
(* Two invocations of createBranchAndCommitFiles against one repository    *)
(***************************************************************************)
\* the plans the two invocations apply: one file, or two files of one path
Plans ==
    { JsonObject(Arr(<<f>>), "", "") : f \in FileEdits }
        \cup { JsonObject(Arr(<<f, g>>), "", "") :
                    f \in {e \in FileEdits : e.content = "X"},
                    g \in {e \in FileEdits : e.content = "Y"} }

\* both invocations run in one deployment: one process.env, a token present
InitConcurrent ==
    /\ handler = "update"
    /\ env \in {e \in Envs : /\ e.REPO_OWNER # "" /\ e.REPO_NAME # ""
                             /\ e.OPENAI_API_KEY # "" /\ e.GITHUB_TOKEN # ""}
    /\ req = [method |-> "POST", body |-> EmptyBody("object")]
    /\ pc = "start"
    /\ resp = NoResp
    /\ reply = NoReply
    /\ aiResult = JsonNull
    /\ loc = NoLoc
    /\ calls = <<>>
    /\ remote = NoRemote
    /\ inv \in [Invocations ->
                    {[NoInvocation EXCEPT !.pc = "repo", !.plan = pl] : pl \in Plans}]
    /\ hub \in {[NoHub EXCEPT !.base = t] : t \in BaseTrees}

\* invocation p moves to position q with locals l and response r
Moved(p, q, l, r) ==
    inv' = [inv EXCEPT ![p] = [@ EXCEPT !.pc = q, !.loc = l, !.resp = r]]

\* the message of a failed call: the throw after a non-success status, the
\* SyntaxError of .json(), or the rejection of fetch
Failure(prefix, out) ==
    CASE out = "notok" -> <<prefix, "status">>
      [] out = "badjson" -> <<"Unexpected token in JSON">>
      [] OTHER -> <<"fetch failed">>

\* invocation p throws: the catch of handler lines 230-233 answers 500
Thrown(p, l, msg) == Moved(p, "done", l, Caught(msg))

\* lines 88-94
RepoLookupOf(p) ==
    /\ inv[p].pc = "repo"
    /\ \E out \in {"ok", "notok", "throw", "badjson"}, db \in DefaultBranches :
        IF out = "ok"
            THEN Moved(p, "ref",
                       [inv[p].loc EXCEPT !.defaultBranch = ResolveBase(env, db)],
                       NoResp)
            ELSE /\ db = ""
                 /\ Thrown(p, inv[p].loc, Failure("GitHub repo lookup failed: ", out))
    /\ UNCHANGED <<single, hub>>

\* lines 97-103
RefLookupOf(p) ==
    /\ inv[p].pc = "ref"
    /\ \E out \in {"ok", "notok", "throw", "badjson"} :
        IF out = "ok"
            THEN Moved(p, "createRef",
                       [inv[p].loc EXCEPT !.baseSha = HeadOf(inv[p].loc.defaultBranch)],
                       NoResp)
            ELSE Thrown(p, inv[p].loc, Failure("Failed to fetch branch ref: ", out))
    /\ UNCHANGED <<single, hub>>

\* lines 115-118 with the status of the answer ignored
CreateRefPcIgnoringStatus(out, plan) == LoopPc(1, plan)

\* lines 115-118: anything but a success throws, a success enters the loop
CreateRefPc(out, plan) == IF out = "ok" THEN LoopPc(1, plan) ELSE "done"

\* lines 106-118; the service creates no ref of a name that exists, and a
\* rejected fetch may or may not have reached the service
CreateRefOf(p) ==
    /\ inv[p].pc = "createRef"
    /\ \E out \in {"ok", "notok", "throw"}, time \in Clocks, applied \in BOOLEAN :
        LET newBranch == "ai-edit-" \o time
            l == [inv[p].loc EXCEPT !.newBranch = newBranch, !.i = 1]
            free == ~hub.refs[newBranch].exists /\ newBranch # l.defaultBranch
            q == CreateRefPc(out, inv[p].plan) IN
        /\ applied => free
        /\ out = "ok" => applied
        /\ out = "notok" => ~applied
        /\ hub' = IF applied
                  THEN [hub EXCEPT !.refs[newBranch] =
                            [exists |-> TRUE, by |-> p, head |-> l.baseSha,
                             tree |-> hub.base]]
                  ELSE hub
        /\ inv' = [inv EXCEPT ![p] =
                    [@ EXCEPT !.pc = q, !.loc = l, !.time = time, !.refOut = out,
                              !.resp = IF q = "done"
                                       THEN Caught(Failure("Failed to create branch: ", out))
                                       ELSE NoResp]]
    /\ UNCHANGED single

\* the file of its plan invocation p is at
FileOf(p) == inv[p].plan.files.v[inv[p].loc.i]

\* lines 127-132
GetFileOf(p) ==
    /\ inv[p].pc = "getFile"
    /\ \E out \in {"ok", "oknosha", "notok", "throw", "badjson"} :
        LET ref == hub.refs[inv[p].loc.newBranch]
            current == ref.tree[FileOf(p).path]
            exists == ref.exists /\ current # "" IN
        /\ out \in {"ok", "badjson"} => exists
        /\ out = "oknosha" => ~exists
        /\ CASE out = "ok" ->
                Moved(p, "putFile",
                      [inv[p].loc EXCEPT !.existingSha = BlobSha(current)], NoResp)
             [] out \in {"oknosha", "notok"} ->
                Moved(p, "putFile", [inv[p].loc EXCEPT !.existingSha = ""], NoResp)
             [] OTHER -> Thrown(p, inv[p].loc, Failure("", out))
    /\ UNCHANGED <<single, hub>>

\* lines 134-150
PutFileOf(p) ==
    /\ inv[p].pc = "putFile"
    /\ \E out \in {"ok", "notok", "throw"}, applied \in BOOLEAN :
        LET call == PutCall(FileOf(p), inv[p].plan, inv[p].loc, out)
            ref == hub.refs[call.branch]
            accepted == ref.exists /\ Acceptable(ref.tree, call.path, call.sha) IN
        /\ applied => accepted
        /\ out = "ok" => applied
        /\ out = "notok" => ~applied
        /\ hub' = IF applied
                  THEN [hub EXCEPT
                          !.refs[call.branch].tree[call.path] = Decoded(call.content),
                          !.writes = @ \cup {[by |-> p, branch |-> call.branch,
                                              path |-> call.path]}]
                  ELSE hub
        /\ IF out = "ok"
            THEN Moved(p, LoopPc(inv[p].loc.i + 1, inv[p].plan),
                       [inv[p].loc EXCEPT !.i = @ + 1], NoResp)
            ELSE Thrown(p, inv[p].loc,
                        IF out = "notok"
                        THEN <<"Failed to create/update file ", call.path, ": ", "status">>
                        ELSE <<"fetch failed">>)
    /\ UNCHANGED single

\* lines 154-171 and handler line 229
CreatePROf(p) ==
    /\ inv[p].pc = "createPR"
    /\ \E out \in {"ok", "notok", "throw", "badjson"}, applied \in BOOLEAN :
        LET pr == PullRequest(inv[p].plan, inv[p].loc) IN
        /\ out \in {"ok", "badjson"} => applied
        /\ out = "notok" => ~applied
        /\ hub' = IF applied
                  THEN [hub EXCEPT !.prs = @ \cup {[by |-> p, head |-> pr.head,
                                                    base |-> pr.base]}]
                  ELSE hub
        /\ IF out = "ok" THEN Moved(p, "done", inv[p].loc, OKSuccess(pr))
           ELSE Thrown(p, inv[p].loc, Failure("Failed to create PR: ", out))
    /\ UNCHANGED single

\* the two invocations interleave at their awaits
NextConcurrent ==
    \E p \in Invocations :
        \/ RepoLookupOf(p)
        \/ RefLookupOf(p)
        \/ CreateRefOf(p)
        \/ GetFileOf(p)
        \/ PutFileOf(p)
        \/ CreatePROf(p)

SpecConcurrent == InitConcurrent /\ [][NextConcurrent]_vars


(***************************************************************************)
(* Properties                                                              *)
(***************************************************************************)
IsGitHub(c) == c.svc = "github"
IsOpenAI(c) == c.svc = "openai"
IsPut(c) == c.op = "putFile"
IsGet(c) == c.op = "getFile"
IsCreateRef(c) == c.op = "createRef"
IsCreatePR(c) == c.op = "createPR"

GitHubCalls == SelectSeq(calls, IsGitHub)
OpenAICalls == SelectSeq(calls, IsOpenAI)
Puts == SelectSeq(calls, IsPut)

Update == handler = "update"
Dev == handler = "dev"
PlanFiles == aiResult.files.v

\* C1: a request to the Change-Proposal Handler whose approve flag is falsy
\* never issues a call to the source-hosting service, and the service is
\* left as it was.
C1_PreviewNeverCallsGitHub ==
    (Update /\ ~req.body.approve) =>
        /\ GitHubCalls = <<>>
        /\ remote = NoRemote
        /\ pc \in {"start", "openai", "done"}

\* a preview has been returned for a plan the model generated
C1_Witness ==
    /\ Update /\ ~req.body.approve
    /\ pc = "done" /\ resp.kind = "preview"
    /\ Len(OpenAICalls) = 1
    /\ NonEmptyArray(aiResult.files)

\* the steps of the commit sequence in their order; the existence check
\* belongs to the write of its file
Rank(c) ==
    CASE c.op = "repo" -> 1
      [] c.op = "ref" -> 2
      [] c.op = "createRef" -> 3
      [] c.op \in {"getFile", "putFile"} -> 4
      [] OTHER -> 5

\* C2: createBranchAndCommitFiles issues repo lookup, ref lookup, branch
\* creation, the per-file writes and the pull request in this order; a step
\* is issued only after every earlier step was issued and returned success
\* (a failed base-branch lookup is followed by nothing), and the pull request
\* only after every file of the plan has been written successfully.
C2_StepsInOrderEachAfterSuccess ==
    LET g == GitHubCalls IN
    /\ \A i \in 1..Len(g) :
        /\ \A j \in 1..(i - 1) :
            /\ Rank(g[j]) <= Rank(g[i])
            /\ g[j].op # "getFile" => g[j].out = "ok"
            /\ Rank(g[j]) # 4 => g[j].op # g[i].op
        /\ \A r \in 1..3 : r < Rank(g[i]) => \E j \in 1..(i - 1) : Rank(g[j]) = r
        /\ g[i].op = "createPR" =>
            /\ Len(Puts) = Len(PlanFiles)
            /\ \A k \in 1..Len(Puts) :
                Puts[k].out = "ok" /\ Puts[k].path = PlanFiles[k].path

\* a pull request has been opened after both files of a two-file plan
C2_Witness ==
    /\ pc = "done" /\ resp.kind = "success"
    /\ Len(PlanFiles) = 2 /\ Len(Puts) = 2
    /\ Len(remote.prs) = 1


\* the sequence of a multi-file plan stopped at the write of the k-th file: the
\* write was answered with a non-success status, or its fetch was rejected
LastCall == calls[Len(calls)]
WriteFailed ==
    /\ pc = "done" /\ calls # <<>>
    /\ Len(PlanFiles) >= 2
    /\ LastCall.op = "putFile" /\ LastCall.out # "ok"

\* the entries before the k-th whose path no later entry up to the k-th names
Settled(k) ==
    {j \in 1..(k - 1) : \A m \in (j + 1)..k : PlanFiles[m].path # PlanFiles[j].path}

\* C3: when the write of the k-th file fails, the created branch and the k-1
\* files already written remain on the service, no later file is written, no
\* pull request is opened, and the error response names the path of the file
\* whose write failed.
C3_FailedWriteLeavesPriorWorkAndNamesFile ==
    WriteFailed =>
        LET k == Len(Puts) IN
        /\ remote.branch = loc.newBranch /\ remote.branch # ""
        /\ \A j \in Settled(k) : remote.tree[PlanFiles[j].path] = PlanFiles[j].content
        /\ \A c \in Range(calls) : c.op \notin {"deleteRef", "deleteFile"}
        /\ loc.i = k
        /\ remote.prs = <<>> /\ \A c \in Range(calls) : ~IsCreatePR(c)
        /\ resp.kind = "error"
        /\ PlanFiles[k].path \in Range(resp.error)

\* the rest of C3, which holds whatever way the write fails
C3_FailedWriteLeavesPriorWork ==
    WriteFailed =>
        LET k == Len(Puts) IN
        /\ remote.branch = loc.newBranch /\ remote.branch # ""
        /\ \A j \in Settled(k) : remote.tree[PlanFiles[j].path] = PlanFiles[j].content
        /\ loc.i = k
        /\ remote.prs = <<>> /\ \A c \in Range(calls) : ~IsCreatePR(c)
        /\ resp.kind = "error"
        /\ LastCall.out = "notok" => PlanFiles[k].path \in Range(resp.error)


\* an empty or whitespace-only prompt (a missing prompt reads as empty)
Blank(p) == p.t = "undefined" \/ (p.t = "string" /\ Trim(p.s) = <<>>)

\* the configuration the handlers check first is complete
Configured ==
    env.REPO_OWNER # "" /\ env.REPO_NAME # "" /\ env.OPENAI_API_KEY # ""

ClientError == resp.status \in 400..499

\* C4: for every empty or whitespace-only prompt the Assistant Handler, and
\* the generation path of the Change-Proposal Handler (no non-empty client
\* file list; repository identity and model credential configured), reject
\* the request with a 4xx status and call the model service never.
C4_BlankPromptRejectedBeforeModelCall ==
    /\ (Dev /\ Blank(req.body.prompt)) =>
            /\ OpenAICalls = <<>>
            /\ pc = "done" => ClientError
    /\ (Update /\ req.body.kind = "object" /\ Configured
            /\ ~NonEmptyArray(req.body.files) /\ Blank(req.body.prompt)) =>
            /\ OpenAICalls = <<>>
            /\ pc = "done" => ClientError

\* C5 as stated: an apply-phase request whose file list is empty or absent
\* gets a 4xx answer and no branch creation, whatever the prompt, the
\* credentials and the model's answer are.
C5_ApplyWithoutRequestFilesRejected ==
    (Update /\ req.body.approve /\ ~NonEmptyArray(req.body.files)) =>
        /\ \A c \in Range(calls) : ~IsCreateRef(c)
        /\ pc \in {"start", "openai", "done"}
        /\ pc = "done" => ClientError

\* every credential the apply phase needs is configured
FullyConfigured == Configured /\ env.GITHUB_TOKEN # ""

\* C5 (amended): in the apply phase a branch is created only for a plan in
\* hand (the client's non-empty file array, else the generated plan) whose
\* files are a non-empty array; with repository identity, model credential
\* and write credential configured, a POST request without non-empty client
\* file array is answered 400 with no call to the source-hosting service
\* when it has no prompt or when the generated plan's files are an empty
\* array or no array.
C5_ApplyWithoutPlanFilesRejected ==
    (Update /\ req.body.approve) =>
        /\ GitHubCalls # <<>> => NonEmptyArray(aiResult.files)
        /\ (/\ pc = "done" /\ req.method = "POST" /\ req.body.kind = "object"
            /\ FullyConfigured /\ ~NonEmptyArray(req.body.files)
            /\ \/ ~Truthy(req.body.prompt)
               \/ /\ reply.kind = "ok" /\ reply.content /\ reply.text # <<>>
                  /\ ParseModelOutput(reply.text).ok
                  /\ HasFiles(ParseModelOutput(reply.text).val)
                  /\ ~NonEmptyArray(ParseModelOutput(reply.text).val.files))
           => resp.status = 400 /\ GitHubCalls = <<>> /\ remote = NoRemote

\* an approved request without client files whose generated plan has an
\* empty files array was answered 400
C5_Witness ==
    /\ Update /\ req.body.approve /\ pc = "done"
    /\ req.body.files = Arr(<<>>)
    /\ Len(OpenAICalls) = 1
    /\ aiResult.files = Arr(<<>>)
    /\ resp.status = 400 /\ resp.error = <<"No files to commit">>


\* the checks of the Change-Proposal Handler a request fails, by position in
\* the order method (1), body (2), repository identity (3), model credential
\* (4), input shape (5), write credential (6), file list of the plan (7);
\* the last two are made only for an approved request with a plan in hand
MethodFails == req.method # "POST"
BodyFails == req.body.kind = "null"
RepoIdentityFails == env.REPO_OWNER = "" \/ env.REPO_NAME = ""
ModelCredentialFails == env.OPENAI_API_KEY = ""
InputShapeFails == ~NonEmptyArray(req.body.files) /\ ~Truthy(req.body.prompt)
WriteCredentialFails == req.body.approve /\ env.GITHUB_TOKEN = ""

Answered(status, msg) ==
    resp.kind = "error" /\ resp.status = status /\ resp.error = msg

\* C6: the Change-Proposal Handler answers with the response of the earliest
\* failing check in the order method, body parse, environment (repository
\* identity, then model credential), input shape, generation, approval
\* (write credential, then non-empty file list); the model is called only
\* after the environment and input-shape checks passed, and the
\* source-hosting service only after the approval checks passed.
C6_EarliestFailingCheckAnswers ==
    Update =>
        /\ OpenAICalls # <<>> \/ pc = "openai" =>
                ~(MethodFails \/ BodyFails \/ RepoIdentityFails
                    \/ ModelCredentialFails \/ InputShapeFails)
        /\ GitHubCalls # <<>> \/ pc \notin {"start", "openai", "done"} =>
                /\ ~(MethodFails \/ BodyFails \/ RepoIdentityFails
                        \/ ModelCredentialFails \/ InputShapeFails)
                /\ ~WriteCredentialFails /\ NonEmptyArray(aiResult.files)
        /\ pc = "done" =>
            IF MethodFails THEN Answered(405, <<"Only POST allowed">>)
            ELSE IF BodyFails THEN resp.kind = "error" /\ resp.status = 500
            ELSE IF RepoIdentityFails
                THEN Answered(500,
                        <<"Server misconfigured: REPO_OWNER or REPO_NAME missing">>)
            ELSE IF ModelCredentialFails
                THEN Answered(500, <<"Server misconfigured: OPENAI_API_KEY missing">>)
            ELSE IF InputShapeFails THEN Answered(400, <<"No prompt provided">>)
            ELSE IF NonEmptyArray(req.body.files) \/ HasFiles(aiResult)
                THEN IF ~req.body.approve THEN resp.kind = "preview"
                     ELSE IF WriteCredentialFails
                        THEN Answered(500, <<"Server missing GITHUB_TOKEN env var">>)
                     ELSE IF ~NonEmptyArray(aiResult.files)
                        THEN Answered(400, <<"No files to commit">>)
                     ELSE GitHubCalls # <<>>
            ELSE Len(OpenAICalls) = 1 /\ resp.status \in {500, 502}

\* a request that fails the environment check, the input-shape check and the
\* write-credential check at once was answered by the environment check
C6_Witness ==
    /\ Update /\ pc = "done"
    /\ ~MethodFails /\ ~BodyFails
    /\ ModelCredentialFails /\ ~RepoIdentityFails
    /\ InputShapeFails /\ WriteCredentialFails
    /\ Answered(500, <<"Server misconfigured: OPENAI_API_KEY missing">>)

\* C7: a request whose method is not POST is answered 405 by both handlers,
\* with no call to the model service or to the source-hosting service,
\* whatever its body and the configuration are.
C7_NonPostRejectedWithoutCalls ==
    req.method # "POST" =>
        /\ calls = <<>> /\ remote = NoRemote
        /\ pc \in {"start", "done"}
        /\ pc = "done" => Answered(405, <<"Only POST allowed">>)

\* a GET carrying a prompt, an approval and a full configuration was refused
C7_Witness ==
    /\ req.method = "GET" /\ pc = "done" /\ resp.status = 405
    /\ Update /\ req.body.approve /\ NonEmptyArray(req.body.files)
    /\ FullyConfigured

\* the model answered with a text that is no usable EditPlan: no JSON even
\* after the fallback extraction, or a value without a files list
Unusable(text) ==
    \/ ~ParseModelOutput(text).ok
    \/ ~HasFiles(ParseModelOutput(text).val)

\* C8: whenever the generation call returns content that cannot be used as
\* an EditPlan, the Change-Proposal Handler answers 502.
C8_UnusableContentAnswers502 ==
    (Update /\ pc = "done" /\ reply.kind = "ok" /\ reply.content
        /\ reply.text # <<>> /\ Unusable(reply.text)) => resp.status = 502

\* C9: every invocation of either handler ends by returning a response with
\* a status code; no exception leaves the handler.
C9_NoExceptionEscapes ==
    /\ pc # "thrown"
    /\ pc = "done" => resp.kind # "none" /\ resp.status \in 200..599


\* C10: a successful apply of a plan with n >= 1 files issues each call once:
\* one branch creation at the head commit of the resolved base branch, n
\* writes in list order, the k-th carrying the k-th entry's path, content and
\* commit message (the plan's title, else "AI edit", for an entry without
\* one) and targeting the new branch, each after one existence check, and
\* one pull request titled with the plan's title ("AI suggested edits" for a
\* plan without one).
C10_SuccessfulApplyIssuesEachCallOnce ==
    (pc = "done" /\ resp.kind = "success") =>
        LET n == Len(PlanFiles)
            g == GitHubCalls IN
        /\ n >= 1 /\ Len(g) = 2 * n + 4
        /\ NonEmptyArray(req.body.files) =>
                /\ PlanFiles = req.body.files.v
                /\ req.body.prTitle # "" => aiResult.prTitle = req.body.prTitle
        /\ g[1].op = "repo" /\ g[2].op = "ref" /\ g[3].op = "createRef"
        /\ g[2].branch = loc.defaultBranch
        /\ g[3].sha = HeadOf(loc.defaultBranch)
        /\ g[3].branch = loc.newBranch
        /\ remote.branch = loc.newBranch /\ remote.head = HeadOf(loc.defaultBranch)
        /\ \A k \in 1..n :
            /\ g[2 + 2 * k].op = "getFile"
            /\ g[2 + 2 * k].path = PlanFiles[k].path
            /\ g[3 + 2 * k].op = "putFile"
            /\ g[3 + 2 * k].path = PlanFiles[k].path
            /\ Decoded(g[3 + 2 * k].content) = PlanFiles[k].content
            /\ g[3 + 2 * k].branch = loc.newBranch
            /\ g[3 + 2 * k].message =
                    IF PlanFiles[k].commitMessage # "" THEN PlanFiles[k].commitMessage
                    ELSE IF aiResult.prTitle # "" THEN aiResult.prTitle
                    ELSE "AI edit"
        /\ g[2 * n + 4].op = "createPR"
        /\ g[2 * n + 4].title =
                IF aiResult.prTitle # "" THEN aiResult.prTitle ELSE "AI suggested edits"
        /\ g[2 * n + 4].branch = loc.newBranch
        /\ Len(remote.prs) = 1 /\ resp.pr = remote.prs[1]
        /\ remote.prs[1].title = g[2 * n + 4].title
        /\ \A i \in 1..Len(g) : g[i].out \in {"ok", "oknosha", "notok"}

\* the plan {files: [docs/a.md "X" "add a", docs/b.md "Y" "add b"], prTitle: "T"}
\* was applied with success
C10_Witness ==
    /\ pc = "done" /\ resp.kind = "success"
    /\ PlanFiles =
        << [path |-> "docs/a.md", content |-> "X", commitMessage |-> "add a"],
           [path |-> "docs/b.md", content |-> "Y", commitMessage |-> "add b"] >>
    /\ aiResult.prTitle = "T"
    /\ Len(Puts) = 2 /\ Puts[1].message = "add a" /\ Puts[2].message = "add b"
    /\ remote.tree["docs/a.md"] = "X" /\ remote.tree["docs/b.md"] = "Y"
    /\ resp.pr.title = "T"


\* the request passes the method and prompt checks of the Assistant Handler
DevAccepted ==
    /\ req.method = "POST"
    /\ req.body.prompt.t = "string" /\ ~Blank(req.body.prompt)

\* C11: the Assistant Handler issues at most one completion request and no
\* other call; a missing model credential is answered 500 with no call, an
\* upstream non-success status 502 with the upstream body as details, a
\* rejected fetch or an unreadable body 500, an upstream success 200 with
\* the reply.
C11_AssistantOutcomes ==
    Dev =>
        /\ Len(calls) <= 1 /\ GitHubCalls = <<>>
        /\ calls # <<>> => DevAccepted /\ env.OPENAI_API_KEY # "" /\ pc = "done"
        /\ (pc = "done" /\ DevAccepted) =>
            IF env.OPENAI_API_KEY = ""
                THEN /\ Answered(500, <<"Server missing OPENAI_API_KEY env var">>)
                     /\ calls = <<>>
            ELSE /\ Len(calls) = 1 /\ calls[1].out = reply.kind
                 /\ reply.kind = "notok" =>
                        /\ Answered(502, <<"Upstream error">>)
                        /\ resp.details = "upstream body"
                 /\ reply.kind \in {"throw", "badjson"} =>
                        Answered(500, <<"Internal server error">>)
                 /\ reply.kind = "ok" =>
                        /\ resp.status = 200 /\ resp.kind = "reply"
                        /\ (reply.content /\ reply.text # <<>>) =>
                                resp.reply = reply.text

\* an upstream non-success status was answered 502 after one call
C11_Witness ==
    /\ Dev /\ pc = "done" /\ DevAccepted
    /\ Len(calls) = 1 /\ reply.kind = "notok"
    /\ resp.status = 502 /\ resp.details # ""


\* the model answered with a completion whose content is a non-empty text
Completed ==
    /\ Update /\ pc = "done" /\ Len(OpenAICalls) = 1
    /\ reply.kind = "ok" /\ reply.content /\ reply.text # <<>>

\* tokens i..j of the text are a JSON object
ObjectAt(text, i, j) ==
    /\ JSONParse(SubSeq(text, i, j)).ok
    /\ JSONParse(SubSeq(text, i, j)).val.t = "object"

\* the text is one JSON object at i..j with prose around it
OneObjectInProse(text, i, j) ==
    /\ ObjectAt(text, i, j)
    /\ (i > 1 \/ j < Len(text))
    /\ \A k \in 1..Len(text), l \in 1..Len(text) :
            ObjectAt(text, k, l) => k = i /\ l = j

ParseErrorAnswered ==
    /\ resp.kind = "error" /\ resp.status = 500
    /\ resp.error # <<>>
    /\ resp.error[1] = "Failed to parse JSON from model output. Raw output: "

\* C12: for every model text that is one valid JSON object with arbitrary
\* prose before or after it, prose with brace characters included,
\* callOpenAI returns the value of parsing the embedded object alone.
C12_EmbeddedObjectRecovered ==
    Completed =>
        \A i \in 1..Len(reply.text), j \in 1..Len(reply.text) :
            OneObjectInProse(reply.text, i, j) =>
                /\ ~ParseErrorAnswered
                /\ aiResult = JSONParse(SubSeq(reply.text, i, j)).val

\* the part of C12 the pattern of line 67 delivers: prose with no "{" before
\* the object and no "}" after it
C12_EmbeddedObjectRecoveredFromBracelessProse ==
    Completed =>
        \A i \in 1..Len(reply.text), j \in 1..Len(reply.text) :
            (/\ OneObjectInProse(reply.text, i, j)
             /\ \A k \in 1..(i - 1) : reply.text[k] # "{"
             /\ \A k \in (j + 1)..Len(reply.text) : reply.text[k] # "}") =>
                /\ ~ParseErrorAnswered
                /\ aiResult = JSONParse(SubSeq(reply.text, i, j)).val


\* some stretch of the text is a JSON value
ContainsJSON(text) ==
    \E i \in 1..Len(text), j \in 1..Len(text) : JSONParse(SubSeq(text, i, j)).ok

\* the response carries the parse error followed by the first
\* min(length, 1000) characters of the text
ParseErrorWithPrefixOf(text) ==
    /\ resp.kind = "error" /\ resp.status = 500
    /\ \E n \in 0..Len(text) :
        /\ n = (IF Len(text) < RawPrefixLen THEN Len(text) ELSE RawPrefixLen)
        /\ resp.error =
            <<"Failed to parse JSON from model output. Raw output: ">>
                \o [k \in 1..n |-> text[k]]

\* C13 as stated: every text with no valid JSON anywhere, the empty text
\* included, makes callOpenAI fail with the parse error that embeds a prefix
\* of the text.
C13_NoJsonFailsWithParseError ==
    (Update /\ pc = "done" /\ Len(OpenAICalls) = 1 /\ reply.kind = "ok"
        /\ reply.content /\ ~ContainsJSON(reply.text)) =>
            ParseErrorWithPrefixOf(reply.text)

\* C13 (amended): every non-empty text with no valid JSON anywhere makes
\* callOpenAI fail with the parse error that embeds the first min(length,
\* 1000) characters of the text, and with no other error; the empty text
\* fails with the error "OpenAI returned no content".
C13_NonEmptyNoJsonFailsWithParseError ==
    (Update /\ pc = "done" /\ Len(OpenAICalls) = 1 /\ reply.kind = "ok"
        /\ reply.content /\ ~ContainsJSON(reply.text)) =>
            /\ aiResult = JsonNull /\ GitHubCalls = <<>>
            /\ IF reply.text = <<>>
                THEN Answered(500, <<"OpenAI returned no content">>)
                ELSE ParseErrorWithPrefixOf(reply.text)

\* a text with braces around prose was answered with the parse error
C13_Witness ==
    /\ Update /\ pc = "done" /\ reply.kind = "ok"
    /\ reply.text = <<"{", "w", "}">>
    /\ resp.error =
        <<"Failed to parse JSON from model output. Raw output: ", "{", "w", "}">>


\* C14: each write follows the existence check of the same path on the new
\* branch; it carries the existing identifier exactly when that check
\* succeeded and returned one; a check answered with any non-success status,
\* or with no identifier, is followed by the write all the same.
C14_WriteFollowsItsCheck ==
    LET g == GitHubCalls IN
    \A i \in 1..Len(g) :
        /\ g[i].op = "putFile" =>
            /\ i > 1 /\ g[i - 1].op = "getFile"
            /\ g[i - 1].path = g[i].path
            /\ g[i - 1].branch = loc.newBranch /\ g[i].branch = loc.newBranch
            /\ g[i - 1].out \in {"ok", "oknosha", "notok"}
            /\ g[i - 1].out = "ok" => g[i - 1].sha # ""
            /\ g[i].sha = (IF g[i - 1].out = "ok" THEN g[i - 1].sha ELSE "")
        /\ (g[i].op = "getFile" /\ g[i].out \in {"ok", "oknosha", "notok"}) =>
            IF i = Len(g) THEN pc = "putFile" /\ resp = NoResp
            ELSE g[i + 1].op = "putFile"

\* one write carried the identifier its check returned, another followed a
\* check answered with a non-success status
C14_Witness ==
    /\ Len(Puts) = 2
    /\ \E i \in 2..Len(GitHubCalls) :
        /\ GitHubCalls[i].op = "putFile" /\ GitHubCalls[i].sha # ""
        /\ GitHubCalls[i - 1].out = "ok"
    /\ \E i \in 2..Len(GitHubCalls) :
        /\ GitHubCalls[i].op = "putFile" /\ GitHubCalls[i].sha = ""
        /\ GitHubCalls[i - 1].out = "notok"

\* entries j < k name the same path, and no entry between them does
SamePathNext(j, k) ==
    /\ j < k /\ PlanFiles[j].path = PlanFiles[k].path
    /\ \A m \in (j + 1)..(k - 1) : PlanFiles[m].path # PlanFiles[j].path

\* the last entry of the plan that names path p
LastEntry(p) ==
    Last({k \in 1..Len(PlanFiles) : PlanFiles[k].path = p})

\* C15: for a plan that lists a path twice the writes to it are issued one
\* after the other; when the second check succeeds, the second write carries
\* the identifier the first write produced, which the service accepts; after
\* a successful sequence the branch holds the content of the later entry.
C15_DuplicatePathLastWriteWins ==
    /\ (pc = "putFile" /\ loc.existingSha # "") =>
            Acceptable(remote.tree, CurrentFile.path, loc.existingSha)
    /\ \A j \in 1..Len(Puts), k \in 1..Len(Puts) :
        (NonEmptyArray(aiResult.files) /\ SamePathNext(j, k)) =>
            /\ Puts[j].out = "ok" /\ Puts[j].path = Puts[k].path
            /\ Puts[k].sha \in {"", BlobSha(PlanFiles[j].content)}
            /\ Puts[k].out = "ok" => Puts[k].sha = BlobSha(PlanFiles[j].content)
    /\ (pc = "done" /\ resp.kind = "success") =>
        \A k \in 1..Len(PlanFiles) :
            remote.tree[PlanFiles[k].path] =
                PlanFiles[LastEntry(PlanFiles[k].path)].content

\* docs/a.md was written twice, first "X" then "Y", and holds "Y"
C15_Witness ==
    /\ pc = "done" /\ resp.kind = "success"
    /\ Len(PlanFiles) = 2 /\ SamePathNext(1, 2)
    /\ PlanFiles[1].content = "X" /\ PlanFiles[2].content = "Y"
    /\ Puts[2].sha = BlobSha("X")
    /\ remote.tree["docs/a.md"] = "Y"



\* the invocation other than p
Other(p) == CHOOSE q \in Invocations : q # p

\* invocation p's create-ref call was answered, and not with a success
Refused(p) == inv[p].refOut \in {"notok", "throw"}

\* C16: two concurrent apply-phase invocations that read the same timestamp
\* derive the same branch name; of two creations of one name at most one
\* succeeds; an invocation whose creation is refused answers an error having
\* written no file and opened no pull request; and no branch holds writes of
\* two invocations.
C16_ConcurrentInvocationsNeverShareBranch ==
    /\ \A p \in Invocations :
        /\ (inv[p].time # "" /\ inv[p].time = inv[Other(p)].time) =>
            /\ inv[p].loc.newBranch = inv[Other(p)].loc.newBranch
            /\ ~(inv[p].refOut = "ok" /\ inv[Other(p)].refOut = "ok")
        /\ inv[p].refOut = "ok" => hub.refs[inv[p].loc.newBranch].by = p
        /\ Refused(p) =>
            /\ inv[p].pc = "done" /\ inv[p].resp.kind = "error"
            /\ inv[p].resp.status = 500
            /\ \A w \in hub.writes : w.by # p
            /\ \A r \in hub.prs : r.by # p
        /\ (inv[p].pc = "done") = (inv[p].resp # NoResp)
    /\ \A w \in hub.writes :
        /\ hub.refs[w.branch].exists /\ hub.refs[w.branch].by = w.by
        /\ w.branch = inv[w.by].loc.newBranch /\ inv[w.by].refOut = "ok"
    /\ \A w1 \in hub.writes, w2 \in hub.writes : w1.branch = w2.branch => w1.by = w2.by
    /\ \A r \in hub.prs : hub.refs[r.head].by = r.by

\* both invocations read one timestamp; one created the branch, wrote its
\* file and opened its pull request, the other was refused and answered 500
C16_Witness ==
    \E p \in Invocations :
        /\ inv[p].time = inv[Other(p)].time /\ inv[p].time # ""
        /\ inv[p].refOut = "ok" /\ inv[Other(p)].refOut = "notok"
        /\ inv[p].pc = "done" /\ inv[p].resp.kind = "success"
        /\ inv[Other(p)].pc = "done" /\ inv[Other(p)].resp.status = 500
        /\ \E w \in hub.writes : w.by = p /\ w.branch = inv[p].loc.newBranch
        /\ \E r \in hub.prs : r.by = p

CallsOf(op) == {i \in 1..Len(calls) : calls[i].op = op}

C18_ClientFilesSkipGeneration ==
    Update =>
        /\ Len(OpenAICalls) <= 1
        /\ NonEmptyArray(req.body.files) =>
            /\ OpenAICalls = <<>> /\ pc # "openai"
            /\ (resp.kind \in {"preview", "success"} \/ GitHubCalls # <<>>
                    \/ pc \notin {"start", "done"}) =>
                        aiResult.files = req.body.files
            /\ resp.kind = "preview" => resp.aiResult.files = req.body.files
        /\ (OpenAICalls # <<>> \/ pc = "openai") =>
            ~NonEmptyArray(req.body.files) /\ Truthy(req.body.prompt)
        /\ (pc = "done" /\ ~NonEmptyArray(req.body.files) /\ Truthy(req.body.prompt)
                /\ req.method = "POST" /\ req.body.kind = "object" /\ Configured) =>
            Len(OpenAICalls) = 1

\* a request with both a prompt and client files was previewed without a
\* model call
C18_Witness ==
    /\ Update /\ pc = "done" /\ resp.kind = "preview"
    /\ NonEmptyArray(req.body.files) /\ Truthy(req.body.prompt)
    /\ OpenAICalls = <<>>
    /\ resp.aiResult.files = req.body.files

\* C19: branch creation, every file write and the pull request's head name
\* the branch created in this invocation; no write names the resolved base
\* branch, in any run, aborted runs included.
C19_WritesTargetNewBranchOnly ==
    Update =>
        \A i \in 1..Len(calls) :
            /\ calls[i].op \in {"createRef", "putFile", "createPR"} =>
                calls[i].branch = loc.newBranch /\ loc.newBranch # ""
            /\ calls[i].op \in {"getFile", "putFile", "createPR"} =>
                /\ remote.branch = loc.newBranch
                /\ loc.newBranch # loc.defaultBranch
                /\ \E j \in 1..(i - 1) :
                    /\ calls[j].op = "createRef" /\ calls[j].out = "ok"
                    /\ calls[j].branch = calls[i].branch
            /\ calls[i].op = "putFile" => calls[i].branch # loc.defaultBranch

\* a run was aborted at its second write; both writes named the new branch
C19_Witness ==
    /\ pc = "done" /\ resp.kind = "error"
    /\ Len(Puts) = 2 /\ Puts[2].out = "notok"
    /\ Puts[1].branch = remote.branch /\ Puts[2].branch = remote.branch
    /\ remote.branch # loc.defaultBranch


\* the number of files of the plan the orchestration works on
PlanSize == IF NonEmptyArray(aiResult.files) THEN Len(aiResult.files.v) ELSE 0

\* C20: every invocation of the Change-Proposal Handler ends with exactly one
\* response, after at most one model call and, for a plan of n files, at
\* most 3 + 2n + 1 source-hosting calls, no call being issued twice.
C20_TerminatesWithinBoundedCalls ==
    /\ [](Update =>
            /\ Len(OpenAICalls) <= 1
            /\ Len(GitHubCalls) <= 3 + 2 * PlanSize + 1
            /\ Cardinality(CallsOf("repo")) <= 1
            /\ Cardinality(CallsOf("ref")) <= 1
            /\ Cardinality(CallsOf("createRef")) <= 1
            /\ Cardinality(CallsOf("getFile")) <= PlanSize
            /\ Cardinality(CallsOf("putFile")) <= PlanSize
            /\ Cardinality(CallsOf("createPR")) <= 1
            /\ (pc = "done") = (resp # NoResp))
    /\ [][Update => (pc # "done" /\ resp = NoResp)]_vars
    /\ [](Update => <>(pc = "done" /\ resp # NoResp))

\* a plan of two files was applied with exactly 3 + 2*2 + 1 calls
C20_Witness ==
    /\ Update /\ pc = "done" /\ resp.kind = "success"
    /\ PlanSize = 2 /\ Len(GitHubCalls) = 8 /\ OpenAICalls = <<>>


====
